---- MODULE Spec2Model ----
(***************************************************************************)
(* Logic Tensor Networks: the two notebooks of the repository               *)
(*   tutorials/1-grounding_non_logical_symbols.ipynb                        *)
(*   examples/multiclass_classification/multiclass-multilabel.ipynb         *)
(* as state machines over the notebook kernel's namespace.  A notebook cell *)
(* is one action; the logictensornetworks library the cells call (core and  *)
(* fuzzy_ops) is modelled as operators over tensors.                        *)
(*                                                                          *)
(* A tensor is a record [shape, flat, active_doms, obj, deps]: flat holds   *)
(* the entries in row-major order, obj is the identity of the Python        *)
(* object, deps the trainable variables a gradient tape connects it to.     *)
(* Feature values are integers in tenths (2.1 is 21).                       *)
(***************************************************************************)
EXTENDS Integers, Sequences, FiniteSets, TLC

VARIABLES ns, pc

vars == <<ns, pc>>

(***************************************************************************)
(* Bounds of the model.                                                     *)
(***************************************************************************)
MaxN == 2

\* feature values np.random.normal may draw, in tenths
FeatureVals == {-4, 7}

NONE == [none |-> TRUE]

(***************************************************************************)
(* The kernel namespace: a function from bound names to values.             *)
(***************************************************************************)
EmptyNs == [n \in {} |-> NONE]

Bind(env, name, val) ==
    [n \in (DOMAIN env) \cup {name} |-> IF n = name THEN val ELSE env[n]]

Bound(name) == name \in DOMAIN ns

(***************************************************************************)
(* Sequence helpers.                                                        *)
(***************************************************************************)
RECURSIVE Prod(_)
Prod(s) == IF s = <<>> THEN 1 ELSE Head(s) * Prod(Tail(s))

\* a sequence given by a function constructor, as an explicit tuple
Tuple(f) == <<>> \o f

RECURSIVE Flatten(_)
Flatten(ss) == IF ss = <<>> THEN <<>> ELSE Head(ss) \o Flatten(Tail(ss))

IndexOf(s, e) == CHOOSE k \in 1..Len(s) : s[k] = e /\ \A j \in 1..(k-1) : s[j] # e

InSeq(s, e) == \E k \in 1..Len(s) : s[k] = e

Range(s) == {s[k] : k \in 1..Len(s)}

\* keys of a Python dict in insertion order: the first occurrence fixes the place
RECURSIVE DictKeys(_)
DictKeys(pairs) ==
    IF pairs = <<>> THEN <<>>
    ELSE LET front == SubSeq(pairs, 1, Len(pairs) - 1)
             last  == pairs[Len(pairs)]
             keys  == DictKeys(front)
         IN  IF InSeq(keys, last[1]) THEN keys ELSE Append(keys, last[1])

\* value of a Python dict built by successive assignment: the last one wins
DictGet(pairs, key) ==
    LET k == CHOOSE i \in 1..Len(pairs) :
                 pairs[i][1] = key /\ \A j \in (i+1)..Len(pairs) : pairs[j][1] # key
    IN  pairs[k][2]

(***************************************************************************)
(* Row-major tensors (tensorflow).                                          *)
(***************************************************************************)
Stride(shape, k) == Prod(SubSeq(shape, k + 1, Len(shape)))

\* position (1-based) in flat of the entry at the 1-based index tuple idx
Ravel(idx, shape) ==
    LET RECURSIVE Off(_)
        Off(k) == IF k = 0 THEN 0 ELSE (idx[k] - 1) * Stride(shape, k) + Off(k - 1)
    IN  1 + Off(Len(shape))

Unravel(pos, shape) ==
    Tuple([k \in 1..Len(shape) |-> (((pos - 1) \div Stride(shape, k)) % shape[k]) + 1])

At(t, idx) == t.flat[Ravel(idx, t.shape)]

\* the entries of an op's output, before it is given an identity
Raw(shape, flat) == [shape |-> Tuple(shape), flat |-> Tuple(flat)]

tf_expand_dims(t, axis) ==
    [t EXCEPT !.shape = SubSeq(t.shape, 1, axis - 1) \o <<1>>
                          \o SubSeq(t.shape, axis, Len(t.shape))]

\* tf.repeat(t, n, axis): every slice along axis is repeated n times
tf_repeat(t, n, axis) ==
    LET shp == [t.shape EXCEPT ![axis] = t.shape[axis] * n]
        src(pos) == LET idx == Unravel(pos, shp)
                    IN  [idx EXCEPT ![axis] = ((idx[axis] - 1) \div n) + 1]
    IN  [t EXCEPT !.shape = shp,
                  !.flat  = Tuple([pos \in 1..Prod(shp) |-> At(t, src(pos))])]

\* tf.transpose(t, perm): axis k of the result is axis perm[k] of t
tf_transpose(t, perm) ==
    LET shp == Tuple([k \in 1..Len(perm) |-> t.shape[perm[k]]])
        src(pos) == LET idx == Unravel(pos, shp)
                    IN  Tuple([a \in 1..Len(perm) |-> idx[IndexOf(perm, a)]])
    IN  [t EXCEPT !.shape = shp,
                  !.flat  = Tuple([pos \in 1..Prod(shp) |-> At(t, src(pos))])]

\* tf.reshape(t, shape); an entry -1 of shape is inferred
tf_reshape(t, shape) ==
    LET known == Prod([k \in 1..Len(shape) |-> IF shape[k] = -1 THEN 1 ELSE shape[k]])
        shp   == Tuple([k \in 1..Len(shape) |->
                           IF shape[k] = -1 THEN Len(t.flat) \div known ELSE shape[k]])
    IN  [t EXCEPT !.shape = shp]

\* row b (1-based) of a tensor whose first axis is the batch axis
BatchRow(t, b) ==
    LET w == Prod(Tail(t.shape))
    IN  SubSeq(t.flat, (b - 1) * w + 1, b * w)

\* tf.concat(ts, axis=1) of rank-2 tensors with the same batch size
tf_concat_axis1(ts) ==
    LET B == ts[1].shape[1]
        rows == Tuple([b \in 1..B |-> Flatten([k \in 1..Len(ts) |-> BatchRow(ts[k], b)])])
    IN  Raw(<<B, Len(rows[1])>>, Flatten(rows))

\* tf.stack(ts) along a new first axis
tf_stack(ts, o, taped) ==
    [shape |-> <<Len(ts)>> \o ts[1].shape,
     flat  |-> Flatten([k \in 1..Len(ts) |-> ts[k].flat]),
     active_doms |-> <<>>,
     obj   |-> o,
     deps  |-> IF taped THEN UNION {ts[k].deps : k \in 1..Len(ts)} ELSE {}]

(***************************************************************************)
(* logictensornetworks core: constants, variables, cross_args, Predicate    *)
(* and Function.                                                            *)
(***************************************************************************)
IsTensor(v) == "obj" \in DOMAIN v

\* ltn.constant(value, trainable): a tf.Variable when trainable, else a tf.constant
constant(value, trainable, o) ==
    [shape |-> value.shape, flat |-> value.flat, active_doms |-> <<>>,
     obj |-> o, deps |-> IF trainable THEN {o} ELSE {}]

\* ltn.variable(label, feed): a tf.Tensor feed is used as it is, any other
\* value is fed to a new tf.constant; a rank-1 result gets a feature axis
variable(label, feed, o) ==
    LET result == IF IsTensor(feed) THEN feed
                  ELSE [shape |-> feed.shape, flat |-> feed.flat,
                        active_doms |-> <<>>, obj |-> o, deps |-> {}]
        ranked == IF Len(result.shape) = 1
                  THEN [result EXCEPT !.shape = result.shape \o <<1>>, !.obj = o]
                  ELSE result
    IN  [ranked EXCEPT !.active_doms = <<label>>]

\* the (dom, dim0) assignments cross_args makes to doms_to_dim0, in order
DomPairs(args) ==
    Flatten([k \in 1..Len(args) |->
                [d \in 1..Len(args[k].active_doms) |->
                    <<args[k].active_doms[d], args[k].shape[d]>>]])

\* one argument of cross_args: an axis is added (and the argument repeated
\* along it) for every domain it lacks, the domain axes are put in the order
\* of doms, and with flatten_dim0 they are merged into one batch axis
RECURSIVE AddDoms(_, _, _, _)
AddDoms(arg, doms_in_arg, missing, pairs) ==
    IF missing = <<>> THEN [arg |-> arg, doms_in_arg |-> doms_in_arg]
    ELSE LET wide == tf_repeat(tf_expand_dims(arg, Len(doms_in_arg) + 1),
                               DictGet(pairs, Head(missing)), Len(doms_in_arg) + 1)
         IN  AddDoms(wide, Append(doms_in_arg, Head(missing)), Tail(missing), pairs)

\* perm = [doms_in_arg.index(dom) for dom in doms] + the axes that are no domain
CrossPerm(added, doms) ==
    Tuple([k \in 1..Len(added.arg.shape) |->
              IF k <= Len(added.doms_in_arg) THEN IndexOf(added.doms_in_arg, doms[k]) ELSE k])

CrossFlatten(crossed, nd, flatten_dim0) ==
    IF flatten_dim0
    THEN tf_reshape(crossed, <<-1>> \o SubSeq(crossed.shape, nd + 1, Len(crossed.shape)))
    ELSE crossed

CrossOrder(added, doms, flatten_dim0) ==
    LET crossed == [tf_transpose(added.arg, CrossPerm(added, doms))
                       EXCEPT !.active_doms = doms]
    IN  CrossFlatten(crossed, Len(added.doms_in_arg), flatten_dim0)

CrossArg(arg, doms, pairs, flatten_dim0) ==
    LET added == AddDoms(arg, arg.active_doms,
                         SelectSeq(doms, LAMBDA d : ~InSeq(arg.active_doms, d)), pairs)
    IN  CrossOrder(added, doms, flatten_dim0)

CrossDoms(args, pairs, doms, flatten_dim0) ==
    [args   |-> Tuple([k \in 1..Len(args) |-> CrossArg(args[k], doms, pairs, flatten_dim0)]),
     doms   |-> doms,
     dims_0 |-> Tuple([k \in 1..Len(doms) |-> DictGet(pairs, doms[k])])]

CrossPairs(args, pairs, flatten_dim0) ==
    LET doms == DictKeys(pairs)
    IN  CrossDoms(args, pairs, doms, flatten_dim0)

cross_args(args, flatten_dim0) ==
    LET pairs == DomPairs(args)
    IN  CrossPairs(args, pairs, flatten_dim0)

ArgDeps(args) == UNION {args[k].deps : k \in 1..Len(args)}

(***************************************************************************)
(* Truth values.  A predicate output is a rational [k |-> "q", num, den];   *)
(* the p-mean-error of a sequence is the algebraic number                   *)
(* 1 - (num/den)^(1/p), kept as [k |-> "pme", p, num, den]; the mean of no  *)
(* value at all is not a number, [k |-> "nan"].                             *)
(***************************************************************************)
RECURSIVE GCD(_, _)
GCD(a, b) == IF b = 0 THEN a ELSE GCD(b, a % b)

Q(n, d) ==
    [k |-> "q",
     num |-> n \div GCD(IF n < 0 THEN -n ELSE n, d),
     den |-> d \div GCD(IF n < 0 THEN -n ELSE n, d)]

NaN == [k |-> "nan"]

IsNaN(x) == x.k = "nan"

QOne == Q(1, 1)

LCM(a, b) == (a \div GCD(a, b)) * b

QAdd(x, y) ==
    Q(x.num * (LCM(x.den, y.den) \div x.den) + y.num * (LCM(x.den, y.den) \div y.den),
      LCM(x.den, y.den))

QSub(x, y) == QAdd(x, [y EXCEPT !.num = -y.num])

QMul(x, y) == Q(x.num * y.num, x.den * y.den)

RECURSIVE QPow(_, _)
QPow(x, p) == IF p = 0 THEN QOne ELSE QMul(x, QPow(x, p - 1))

RECURSIVE QSum(_)
QSum(xs) == IF xs = <<>> THEN Q(0, 1) ELSE QAdd(Head(xs), QSum(Tail(xs)))

\* fuzzy_ops.Not_Std: 1 - x
Not_Std(x) == IF IsNaN(x) THEN NaN ELSE QSub(QOne, x)

\* fuzzy_ops.And_Prod: x * y
And_Prod(x, y) == IF IsNaN(x) \/ IsNaN(y) THEN NaN ELSE QMul(x, y)

\* fuzzy_ops.Or_ProbSum: x + y - x * y
Or_ProbSum(x, y) ==
    IF IsNaN(x) \/ IsNaN(y) THEN NaN ELSE QSub(QAdd(x, y), QMul(x, y))

\* fuzzy_ops.Implies_Reichenbach: 1 - x + x * y
Implies_Reichenbach(x, y) ==
    IF IsNaN(x) \/ IsNaN(y) THEN NaN ELSE QAdd(QSub(QOne, x), QMul(x, y))

\* (1 - x)^p as a rational: x is a rational, or a p-mean-error of the same p
ErrPow(x, p) ==
    CASE x.k = "q" -> QPow(QSub(QOne, x), p)
      [] x.k = "pme" /\ x.p = p -> Q(x.num, x.den)

PMeanOf(total, n, p) ==
    [k |-> "pme", p |-> p, num |-> Q(total.num, total.den * n).num,
     den |-> Q(total.num, total.den * n).den]

\* fuzzy_ops.Aggreg_pMeanError.__call__(xs, p):
\*   1 - tf.pow(tf.reduce_mean(tf.pow(1-xs, p)), 1/p)
\* tf.reduce_mean of no value is nan, and nan propagates
Aggreg_pMeanError(xs, p) ==
    IF xs = <<>> \/ (\E i \in 1..Len(xs) : IsNaN(xs[i])) THEN NaN
    ELSE LET total == QSum(Tuple([i \in 1..Len(xs) |-> ErrPow(xs[i], p)]))
         IN  PMeanOf(total, Len(xs), p)

\* a truth value is a real number of [0,1]
InUnit(x) == ~IsNaN(x) /\ 0 <= x.num /\ x.num <= x.den /\ x.den > 0

\* a/b <= c/d for naturals a, c and positive b, d, by continued fractions
\* (no product is formed, so nothing overflows)
RECURSIVE FracLeq(_, _, _, _)
FracLeq(a, b, c, d) ==
    IF a \div b # c \div d THEN a \div b < c \div d
    ELSE IF a % b = 0 THEN TRUE
    ELSE IF c % d = 0 THEN FALSE
    ELSE FracLeq(d, c % d, b, a % b)

\* x <= y for two p-mean-errors: 1 - ex^(1/px) <= 1 - ey^(1/py) iff
\* ey^px <= ex^py
PmeLeq(x, y) ==
    LET ey == QPow(Q(y.num, y.den), x.p)
        ex == QPow(Q(x.num, x.den), y.p)
    IN  FracLeq(ey.num, ey.den, ex.num, ex.den)

(***************************************************************************)
(* The models of the tutorial.  A Dense network with weights the notebook   *)
(* never fixes is an uninterpreted function of the row it is fed: its       *)
(* output entry names the network and that row.                             *)
(***************************************************************************)
\* P1: lambda x: tf.exp(-tf.norm(x-mu,axis=1)); the entry records the squared
\* norm d2 (in hundredths), the value being exp(-sqrt(d2))
LambdaP1(x, mu) ==
    LET sq(row) == LET RECURSIVE S(_)
                       S(k) == IF k = 0 THEN 0
                               ELSE (row[k] - mu.flat[k]) * (row[k] - mu.flat[k]) + S(k - 1)
                   IN  S(Len(row))
    IN  Raw(<<x.shape[1]>>,
            [b \in 1..x.shape[1] |-> [exp_neg_sqrt |-> sq(BatchRow(x, b))]])

ModelP2_call(x) ==
    Raw(<<x.shape[1], 1>>,
        [b \in 1..x.shape[1] |-> [net |-> "ModelP2", row |-> BatchRow(x, b)]])

ModelP3_dense(x) ==
    Raw(<<x.shape[1], 1>>,
        [b \in 1..x.shape[1] |-> [net |-> "ModelP3", row |-> BatchRow(x, b)]])

\* mutant: the two inputs concatenated in the other order
ModelP3_call_swapped(inputs) ==
    LET x == tf_concat_axis1(<<inputs[2], inputs[1]>>)
    IN  ModelP3_dense(x)

\* x1, x2 = inputs[0], inputs[1]; x = tf.concat([x1,x2],axis=1)
ModelP3_call(inputs) ==
    LET x == tf_concat_axis1(<<inputs[1], inputs[2]>>)
    IN  ModelP3_dense(x)

\* f1: lambda args: args[0]-args[1]
LambdaF1(args) ==
    Raw(args[1].shape,
        [k \in 1..Len(args[1].flat) |-> args[1].flat[k] - args[2].flat[k]])

F2Units == 5

MyModel_call(x) ==
    Raw(<<x.shape[1], F2Units>>,
        Flatten([b \in 1..x.shape[1] |->
                    [j \in 1..F2Units |->
                        [net |-> "MyModel", row |-> BatchRow(x, b), unit |-> j]]]))

\* bound of the model: predicate outputs are multiples of 1/TruthDen
TruthDen == 2

\* ltn.utils.LogitsToPredicateModel(logits_model, single_label=False): the
\* sigmoid of the logit that the class index selects; weights gives, for the
\* sample of a row, the four sigmoid outputs in units of 1/TruthDen
LogitsToPredicateModel_call(inputs, weights) ==
    Raw(<<inputs[1].shape[1]>>,
        [b \in 1..inputs[1].shape[1] |->
            Q(weights[BatchRow(inputs[1], b)[1]][BatchRow(inputs[2], b)[1] + 1], TruthDen)])

ModelCall(model, inputs, env) ==
    CASE model = "p"  -> LogitsToPredicateModel_call(inputs, env.weights)
      [] model = "P1" -> LambdaP1(inputs[1], env.mu)
      [] model = "P2" -> ModelP2_call(inputs[1])
      [] model = "P3" -> ModelP3_call(inputs)
      [] model = "f1" -> LambdaF1(inputs)
      [] model = "f2" -> MyModel_call(inputs[1])

\* what the wrapped model is called with: the crossed arguments, flattened
ModelInputs(inputs) == cross_args(inputs, TRUE).args

\* the output tensor of a Predicate or Function: reshaped, labelled with the
\* domains, a new object connected (under a tape) to what the inputs are
Labelled(shaped, doms, o, deps) ==
    [shape |-> shaped.shape, flat |-> shaped.flat,
     active_doms |-> doms, obj |-> o, deps |-> deps]

LtnOutput(outputs, shape, doms, o, deps) ==
    LET shaped == tf_reshape(outputs, shape)
    IN  Labelled(shaped, doms, o, deps)

\* outputs = tf.reshape(outputs, dims_0), or to a scalar without domains
PredicateOut(ca, model, env, o, deps) ==
    LET outputs == ModelCall(model, ca.args, env)
    IN  LtnOutput(outputs, IF ca.dims_0 # <<>> THEN ca.dims_0 ELSE <<>>, ca.doms, o, deps)

\* ltn.Predicate.call
Predicate_call(model, inputs, env, o, taped) ==
    LET ca == cross_args(inputs, TRUE)
    IN  PredicateOut(ca, model, env, o, IF taped THEN ArgDeps(inputs) ELSE {})

\* dims_0 followed by the axes of an outcome
FunctionShape(outputs, dims_0) == dims_0 \o Tail(outputs.shape)

FunctionOut(ca, model, env, o, deps) ==
    LET outputs == ModelCall(model, ca.args, env)
    IN  LtnOutput(outputs, FunctionShape(outputs, ca.dims_0), ca.doms, o, deps)

\* ltn.Function.call
Function_call(model, inputs, env, o, taped) ==
    LET ca == cross_args(inputs, TRUE)
    IN  FunctionOut(ca, model, env, o, IF taped THEN ArgDeps(inputs) ELSE {})

\* tape.gradient(target, source): None unless the tape connects them
gradient(target, source) ==
    IF source.obj \in target.deps
    THEN [grad_wrt |-> source.obj, shape |-> source.shape]
    ELSE NONE

(***************************************************************************)
(* tutorials/1-grounding_non_logical_symbols.ipynb, cell by cell, run from  *)
(* top to bottom.  pc names the notebook and the execution count of the     *)
(* cell to run next; the object created k-th by cell n has identity 10n+k.  *)
(***************************************************************************)
FeatDim == 2

Next_cell(nb, n) == [nb |-> nb, cell |-> n]

AtCell(nb, n) == pc = Next_cell(nb, n)

\* np.random.normal(., ., (n, FeatDim)): any n individuals
Normal(n) == {Raw(<<n, FeatDim>>, f) : f \in [1..(n * FeatDim) -> FeatureVals]}

C1Value == Raw(<<2>>, <<21, 30>>)

C2Value == Raw(<<2>>, <<45, 8>>)

Cell2 ==
    /\ AtCell("tutorial", 2)
    /\ ns' = Bind(Bind(ns, "c1", constant(C1Value, FALSE, 21)),
                  "c2", constant(Raw(<<2, 3>>, <<42, 30, 25, 40, -13, 18>>), FALSE, 22))
    /\ pc' = Next_cell("tutorial", 3)

Cell3 ==
    /\ AtCell("tutorial", 3)
    /\ ns' = Bind(ns, "c3", constant(Raw(<<2>>, <<0, 0>>), TRUE, 31))
    /\ pc' = Next_cell("tutorial", 5)

Cell5 ==
    /\ AtCell("tutorial", 5)
    /\ ns' = Bind(ns, "mu", constant(Raw(<<2>>, <<20, 30>>), FALSE, 51))
    /\ pc' = Next_cell("tutorial", 6)

\* c1 = ltn.constant([2.1,3]); c2 = ltn.constant([4.5,0.8])
BindC1C2(env, trainable, o) ==
    Bind(Bind(env, "c1", constant(C1Value, trainable, o)),
         "c2", constant(C2Value, trainable, o + 1))

\* print(P1(c1)); print(P1(c2)); print(P2(c1))
Cell6Out(env) ==
    Bind(Bind(env, "out6",
              <<Predicate_call("P1", <<env.c1>>, env, 63, FALSE),
                Predicate_call("P1", <<env.c2>>, env, 64, FALSE),
                Predicate_call("P2", <<env.c1>>, env, 65, FALSE)>>),
         "fed6", ModelInputs(<<env.c1>>))

Cell6 ==
    /\ AtCell("tutorial", 6)
    /\ LET env == BindC1C2(ns, FALSE, 61)
       IN  ns' = Cell6Out(env)
    /\ pc' = Next_cell("tutorial", 7)

\* print(P3([c1,c2]))
Cell7Out(env) ==
    Bind(Bind(env, "out7", Predicate_call("P3", <<env.c1, env.c2>>, env, 73, FALSE)),
         "fed7", ModelInputs(<<env.c1, env.c2>>))

Cell7 ==
    /\ AtCell("tutorial", 7)
    /\ LET env == BindC1C2(ns, FALSE, 71)
       IN  ns' = Cell7Out(env)
    /\ pc' = Next_cell("tutorial", 9)

\* print(f1([c1,c2])); print(f2(c1))
Cell9Out(env) ==
    Bind(env, "out9",
         <<Function_call("f1", <<env.c1, env.c2>>, env, 93, FALSE),
           Function_call("f2", <<env.c1>>, env, 94, FALSE)>>)

Cell9 ==
    /\ AtCell("tutorial", 9)
    /\ LET env == BindC1C2(ns, FALSE, 91)
       IN  ns' = Cell9Out(env)
    /\ pc' = Next_cell("tutorial", 10)

\* x = ltn.variable('x', ...); y = ltn.variable('y', ...); the notebook draws
\* 10 and 5 individuals, the model any number up to MaxN of each
Cell10 ==
    /\ AtCell("tutorial", 10)
    /\ \E nx \in 1..MaxN, ny \in 1..MaxN :
         \E fx \in Normal(nx), fy \in Normal(ny) :
            ns' = Bind(Bind(ns, "x", variable("x", fx, 101)), "y", variable("y", fy, 102))
    /\ pc' = Next_cell("tutorial", 11)

\* mutant: the arguments passed in the other order
Res1Call_swapped(env) == Predicate_call("P3", <<env.y, env.x>>, env, 111, FALSE)

Res1Call(env) == Predicate_call("P3", <<env.x, env.y>>, env, 111, FALSE)

Cell11 ==
    /\ AtCell("tutorial", 11)
    /\ ns' = Bind(ns, "res1", Res1Call(ns))
    /\ pc' = Next_cell("tutorial", 12)

\* mutant: the predicate called where the function is meant
Res2Call_predicate(env) == Predicate_call("P3", <<env.x, env.y>>, env, 121, FALSE)

Res2Call(env) == Function_call("f1", <<env.x, env.y>>, env, 121, FALSE)

Cell12 ==
    /\ AtCell("tutorial", 12)
    /\ ns' = Bind(ns, "res2", Res2Call(ns))
    /\ pc' = Next_cell("tutorial", 13)

\* mutant: the variable x passed where the constant c1 is meant
Res3Call_variable(env) == Predicate_call("P3", <<env.x, env.y>>, env, 132, FALSE)

Res3Call(env) == Predicate_call("P3", <<env.c1, env.y>>, env, 132, FALSE)

Cell13Out(env) == Bind(env, "res3", Res3Call(env))

Cell13 ==
    /\ AtCell("tutorial", 13)
    /\ LET env == Bind(ns, "c1", constant(C1Value, FALSE, 131))
       IN  ns' = Cell13Out(env)
    /\ pc' = Next_cell("tutorial", 14)

\* tf.stack([c1,c2]), inside the gradient tape
StackC1C2(env) == tf_stack(<<env.c1, env.c2>>, 143, TRUE)

\* mutant: the stack's value (its numpy array) fed instead of the tensor
StackedVariable_value(env) ==
    LET stacked == StackC1C2(env)
    IN  variable("x", Raw(stacked.shape, stacked.flat), 144)

\* x = ltn.variable("x", tf.stack([c1,c2]))
StackedVariable(env) ==
    LET stacked == StackC1C2(env)
    IN  variable("x", stacked, 144)

\* res = P2(x), inside the tape
Cell14Res(env) == Bind(env, "res", Predicate_call("P2", <<env.x>>, env, 145, TRUE))

\* tape.gradient(res,c1)
Cell14Grad(env) == Bind(env, "out14", gradient(env.res, env.c1))

Cell14Tape(env) ==
    LET withx == Bind(env, "x", StackedVariable(env))
    IN  LET withres == Cell14Res(withx)
        IN  Cell14Grad(withres)

\* c1, c2 = trainable constants; with tf.GradientTape() as tape: ...
Cell14 ==
    /\ AtCell("tutorial", 14)
    /\ LET env == BindC1C2(ns, TRUE, 141)
       IN  ns' = Cell14Tape(env)
    /\ pc' = Next_cell("tutorial", 15)

Init == ns = EmptyNs /\ pc = Next_cell("tutorial", 2)

Next ==
    \/ Cell2 \/ Cell3 \/ Cell5 \/ Cell6 \/ Cell7 \/ Cell9 \/ Cell10
    \/ Cell11 \/ Cell12 \/ Cell13 \/ Cell14

Spec == Init /\ [][Next]_vars

(***************************************************************************)
(* logictensornetworks core: Wrapper_Connective and Wrapper_Quantifier.     *)
(***************************************************************************)
ConnectiveOp(op, vals) ==
    CASE op = "Not"     -> Not_Std(vals[1])
      [] op = "And"     -> And_Prod(vals[1], vals[2])
      [] op = "Or"      -> Or_ProbSum(vals[1], vals[2])
      [] op = "Implies" -> Implies_Reichenbach(vals[1], vals[2])

ConnectiveOut(op, ca, o) ==
    [shape |-> ca.args[1].shape,
     flat  |-> Tuple([pos \in 1..Len(ca.args[1].flat) |->
                  ConnectiveOp(op, Tuple([k \in 1..Len(ca.args) |-> ca.args[k].flat[pos]]))]),
     active_doms |-> ca.doms, obj |-> o, deps |-> {}]

\* ltn.Wrapper_Connective.__call__(*wffs): the wffs are crossed, the fuzzy
\* operator is applied entry by entry
Connective_call(op, wffs, o) ==
    LET ca == cross_args(wffs, FALSE)
    IN  ConnectiveOut(op, ca, o)

\* the axes of wff that stay: those of the domains that are not aggregated
KeptAxes(wff, aggreg_doms) ==
    SelectSeq(Tuple([k \in 1..Len(wff.shape) |-> k]),
              LAMBDA k : k > Len(wff.active_doms) \/ wff.active_doms[k] \notin aggreg_doms)

\* the entries of wff aggregated into the entry idx of the result
Aggregated(wff, kept, idx) ==
    LET here(pos) == \A k \in 1..Len(kept) : Unravel(pos, wff.shape)[kept[k]] = idx[k]
        places == SelectSeq(Tuple([pos \in 1..Len(wff.flat) |-> pos]), here)
    IN  Tuple([k \in 1..Len(places) |-> wff.flat[places[k]]])

QuantifierOut(wff, kept, shape, p, o) ==
    [shape |-> shape,
     flat  |-> Tuple([pos \in 1..Prod(shape) |->
                  Aggreg_pMeanError(Aggregated(wff, kept, Unravel(pos, shape)), p)]),
     active_doms |-> Tuple([k \in 1..Len(SelectSeq(kept, LAMBDA a : a <= Len(wff.active_doms))) |->
                              wff.active_doms[kept[k]]]),
     obj |-> o, deps |-> {}]

QuantifierKept(wff, kept, p, o) ==
    LET shape == Tuple([k \in 1..Len(kept) |-> wff.shape[kept[k]]])
    IN  QuantifierOut(wff, kept, shape, p, o)

\* ltn.Wrapper_Quantifier.__call__(variables, wff, p): the axes of the
\* variables' labels are aggregated with Aggreg_pMeanError
Quantifier_call(variables, wff, p, o) ==
    LET kept == KeptAxes(wff, {variables[k].active_doms[1] : k \in 1..Len(variables)})
    IN  QuantifierKept(wff, kept, p, o)

\* features[mask]: the rows of a rank-2 tensor where mask holds, in order
BooleanMask(t, mask, o) ==
    LET rows == SelectSeq(Tuple([b \in 1..t.shape[1] |-> b]), LAMBDA b : mask[b])
    IN  [shape |-> <<Len(rows)>> \o Tail(t.shape),
         flat  |-> Flatten(Tuple([k \in 1..Len(rows) |-> BatchRow(t, rows[k])])),
         active_doms |-> <<>>, obj |-> o, deps |-> {}]

(***************************************************************************)
(* examples/multiclass_classification/multiclass-multilabel.ipynb: the      *)
(* knowledge base.  A sample of crabs.dat is named by one feature, its id;  *)
(* weights is what the logits model has learnt: for each id the sigmoid of  *)
(* its four logits [male, female, blue, orange], in units of 1/TruthDen.    *)
(***************************************************************************)
MaxBatch == 2

ForallP == 2

FormulaP == 2

PhiP == 5

\* sigmoid outputs of the logits model for one sample (float32 sigmoid
\* saturates to 0 and to 1)
PredRows ==
    {<<TruthDen, 0, TruthDen, 0>>, <<0, TruthDen, 0, TruthDen>>,
     <<1, 1, 1, 1>>, <<TruthDen, 1, 0, 1>>}

\* class_male = ltn.constant(0) ... class_orange = ltn.constant(3)
ClassConstants(env) ==
    Bind(Bind(Bind(Bind(env,
        "class_male",   constant(Raw(<<>>, <<0>>), FALSE, 50)),
        "class_female", constant(Raw(<<>>, <<1>>), FALSE, 51)),
        "class_blue",   constant(Raw(<<>>, <<2>>), FALSE, 52)),
        "class_orange", constant(Raw(<<>>, <<3>>), FALSE, 53))

\* one batch of a dataset: features (n, 1), labels_sex (n,), labels_color (n,)
Batch(n, sex, color, weights) ==
    Bind(Bind(Bind(Bind(EmptyNs,
        "features", [shape |-> <<n, 1>>, flat |-> Tuple([b \in 1..n |-> b]),
                     active_doms |-> <<>>, obj |-> 1, deps |-> {}]),
        "labels_sex",   Raw(<<n>>, sex)),
        "labels_color", Raw(<<n>>, color)),
        "weights", weights)

\* labels == v
LabelEq(labels, v) == Tuple([b \in 1..labels.shape[1] |-> labels.flat[b] = v])

\* features[labels_color=="B"]
x_blue_feed(env) == BooleanMask(env.features, LabelEq(env.labels_color, "B"), 101)

\* features[labels_color=="O"]
x_orange_feed(env) == BooleanMask(env.features, LabelEq(env.labels_color, "O"), 102)

x_male_feed_other(env) == BooleanMask(env.features, LabelEq(env.labels_color, "B"), 103)

\* features[labels_sex=="M"]
x_male_feed(env) == BooleanMask(env.features, LabelEq(env.labels_sex, "M"), 103)

\* features[labels_sex=="F"]
x_female_feed(env) == BooleanMask(env.features, LabelEq(env.labels_sex, "F"), 104)

\* x = ltn.variable("x",features): features is a tf.Tensor, so x is features
AxiomsX(env) ==
    LET x == variable("x", env.features, 100)
    IN  Bind(Bind(env, "x", x), "features", x)

\* the five variables of axioms; the labels are those the code gives
AxiomsVariables(env) ==
    LET frame == AxiomsX(env)
    IN  Bind(Bind(Bind(Bind(frame,
            "x_blue",   variable("x_blue", x_blue_feed(frame), 101)),
            "x_orange", variable("x_orange", x_orange_feed(frame), 102)),
            "x_male",   variable("x_blue", x_male_feed(frame), 103)),
            "x_female", variable("x_blue", x_female_feed(frame), 104))

\* Forall(v, wff) with the p of the aggregator, or with the keyword p
Forall(v, wff, p, o) == Quantifier_call(<<v>>, wff, p, o)

\* Forall(x, wff): the p of the aggregator of Forall
ForallDefault(x, wff, o) == Forall(x, wff, ForallP, o)

\* Forall(v, p([v,class]))
AxiomPositive(v, class, env, o) ==
    LET wff == Predicate_call("p", <<v, class>>, env, o, FALSE)
    IN  ForallDefault(v, wff, o + 1)

NotForall(x, wff, o) ==
    LET neg == Connective_call("Not", <<wff>>, o)
    IN  ForallDefault(x, neg, o + 1)

\* Forall(x,Not(And(p([x,a]),p([x,b]))))
AxiomExclusion(x, a, b, env, o) ==
    LET conj == Connective_call("And", <<Predicate_call("p", <<x, a>>, env, o, FALSE),
                                          Predicate_call("p", <<x, b>>, env, o + 1, FALSE)>>,
                                o + 2)
    IN  NotForall(x, conj, o + 3)

\* the list axioms, stacked
AxiomsStack(env) ==
    tf_stack(<<AxiomPositive(env.x_blue, env.class_blue, env, 110),
               AxiomPositive(env.x_orange, env.class_orange, env, 120),
               AxiomPositive(env.x_male, env.class_male, env, 130),
               AxiomPositive(env.x_female, env.class_female, env, 140),
               AxiomExclusion(env.x, env.class_blue, env.class_orange, env, 150),
               AxiomExclusion(env.x, env.class_male, env.class_female, env, 160)>>,
             170, FALSE)

\* formula_aggregator = ltn.fuzzy_ops.Aggreg_pMeanError(p=2)
formula_aggregator(xs) == Aggreg_pMeanError(xs.flat, FormulaP)

AxiomsReturn(frame, stacked) ==
    Bind(Bind(frame, "axioms", stacked), "sat_level", formula_aggregator(stacked))

AxiomsBody(frame) ==
    LET stacked == AxiomsStack(frame)
    IN  AxiomsReturn(frame, stacked)

\* axioms(features,labels_sex,labels_color): the frame of the call, with the
\* returned sat_level and axioms
axioms(env) ==
    LET frame == AxiomsVariables(env)
    IN  AxiomsBody(frame)

ForallKw_p1(x, wff, o) == Forall(x, wff, 1, o)

\* Forall(x, wff, p=5): the keyword p replaces the p of the aggregator
ForallKw(x, wff, o) == Forall(x, wff, PhiP, o)

PhiImplies(x, consequent, env, o) ==
    ForallKw(x, Connective_call("Implies",
                    <<Predicate_call("p", <<x, env.class_blue>>, env, o, FALSE), consequent>>,
                    o + 1),
             o + 2)

\* Forall(x, Implies(p([x,class_blue]),Not(p([x,class_orange]))),p=5)
Phi1Body(x, env, o) ==
    PhiImplies(x, Connective_call("Not",
                      <<Predicate_call("p", <<x, env.class_orange>>, env, o, FALSE)>>, o + 1),
               env, o + 2)

phi1(env) ==
    LET x == variable("x", env.features, 200)
    IN  Phi1Body(x, env, 201)

\* Forall(x, Implies(p([x,class_blue]),p([x,class_orange])),p=5)
Phi2Body(x, env, o) ==
    PhiImplies(x, Predicate_call("p", <<x, env.class_orange>>, env, o, FALSE), env, o + 1)

phi2(env) ==
    LET x == variable("x", env.features, 210)
    IN  Phi2Body(x, env, 211)

\* Forall(x, Implies(p([x,class_blue]),p([x,class_male])),p=5)
Phi3Body(x, env, o) ==
    PhiImplies(x, Predicate_call("p", <<x, env.class_male>>, env, o, FALSE), env, o + 1)

phi3(env) ==
    LET x == variable("x", env.features, 220)
    IN  Phi3Body(x, env, 221)

(***************************************************************************)
(* test_step(features, labels_sex, labels_color) on one batch, statement    *)
(* by statement; pc.cell counts the statements run.                         *)
(***************************************************************************)
InitTestStep ==
    \E n \in 1..MaxBatch :
        \E sex \in [1..n -> {"M", "F"}], color \in [1..n -> {"B", "O"}],
           weights \in [1..n -> PredRows] :
            /\ ns = ClassConstants(Batch(n, sex, color, weights))
            /\ pc = Next_cell("test_step", 1)

BindSatKb(frame) == Bind(frame, "sat_kb", frame.sat_level)

\* sat_kb = axioms(features, labels_sex, labels_color)[0]
TestStep_sat_kb ==
    /\ AtCell("test_step", 1)
    /\ ns' = LET frame == axioms(ns) IN BindSatKb(frame)
    /\ pc' = Next_cell("test_step", 2)

\* sat_phi1 = phi1(features)
TestStep_sat_phi1 ==
    /\ AtCell("test_step", 2)
    /\ ns' = Bind(ns, "sat_phi1", phi1(ns))
    /\ pc' = Next_cell("test_step", 3)

\* sat_phi2 = phi2(features)
TestStep_sat_phi2 ==
    /\ AtCell("test_step", 3)
    /\ ns' = Bind(ns, "sat_phi2", phi2(ns))
    /\ pc' = Next_cell("test_step", 4)

\* sat_phi3 = phi3(features)
TestStep_sat_phi3 ==
    /\ AtCell("test_step", 4)
    /\ ns' = Bind(ns, "sat_phi3", phi3(ns))
    /\ pc' = Next_cell("test_step", 5)

NextTestStep ==
    \/ TestStep_sat_kb
    \/ TestStep_sat_phi1
    \/ TestStep_sat_phi2
    \/ TestStep_sat_phi3

SpecTestStep == InitTestStep /\ [][NextTestStep]_vars

(***************************************************************************)
(* Forall on one sequence of truth values, with the p of its aggregator     *)
(* and with the keyword p of phi1, phi2 and phi3.                           *)
(***************************************************************************)
MaxLen == 4

\* a formula with the free variable x: one truth value for each individual
TruthSequence(xs) ==
    [shape |-> <<Len(xs)>>, flat |-> Tuple([k \in 1..Len(xs) |-> Q(xs[k], TruthDen)]),
     active_doms |-> <<"x">>, obj |-> 2, deps |-> {}]

InitForall ==
    \E n \in 1..MaxLen :
        \E xs \in [1..n -> 0..TruthDen] :
            /\ ns = Bind(Bind(EmptyNs,
                        "x", variable("x", Raw(<<n, 1>>, [b \in 1..n |-> b]), 1)),
                        "wff", TruthSequence(xs))
            /\ pc = Next_cell("forall", 0)

Forall_p2 ==
    /\ pc.nb = "forall"
    /\ ~Bound("sat_p2")
    /\ ns' = Bind(ns, "sat_p2", ForallDefault(ns.x, ns.wff, 3))
    /\ pc' = Next_cell("forall", pc.cell + 1)

Forall_p5 ==
    /\ pc.nb = "forall"
    /\ ~Bound("sat_p5")
    /\ ns' = Bind(ns, "sat_p5", ForallKw(ns.x, ns.wff, 4))
    /\ pc' = Next_cell("forall", pc.cell + 1)

NextForall ==
    \/ Forall_p2
    \/ Forall_p5

SpecForall == InitForall /\ [][NextForall]_vars

(***************************************************************************)
(* multiclass-multilabel.ipynb: the data.  A row of crabs.dat is named by   *)
(* its position id in the file (the index of the data frame); its five      *)
(* measurements are stood for by that id.                                   *)
(***************************************************************************)
NRows == 200

TrainSize == 160

batch_size == 64

MaxEpochs == 2

\* crabs.dat: 50 crabs each of the two colour forms and both sexes, in the
\* order blue males, blue females, orange males, orange females
Crabs(id) ==
    [id  |-> id,
     sp  |-> IF id < NRows \div 2 THEN "B" ELSE "O",
     sex |-> IF id % (NRows \div 2) < NRows \div 4 THEN "M" ELSE "F"]

\* pd.read_csv("crabs.dat", ...)
read_csv == Tuple([i \in 1..NRows |-> Crabs(i - 1)])

\* the shuffles considered: row i of the result is row (a * i + r) mod NRows
Strides == {1, 3, NRows - 1}

\* df.sample(frac=1) with the permutation perm
sample(df, perm) == Tuple([i \in 1..Len(df) |-> df[perm[i]]])

Shuffle(a, r) == Tuple([i \in 1..NRows |-> ((a * (i - 1) + r) % NRows) + 1])

\* df[...]: one column of the frame, in the order of the frame
Column(df, col) == Tuple([i \in 1..Len(df) |-> df[i][col]])

Min(a, b) == IF a <= b THEN a ELSE b

\* col[:TrainSize]
Head160(col) == SubSeq(col, 1, Min(TrainSize, Len(col)))

Tail160_from159(col) == SubSeq(col, TrainSize, Len(col))

\* col[TrainSize:]
Tail160(col) == SubSeq(col, TrainSize + 1, Len(col))

\* tf.data.Dataset.from_tensor_slices((features, labels_sex, labels_color)):
\* element i is the triple of the i-th entries
from_tensor_slices(cols) ==
    Tuple([i \in 1..Len(cols[1]) |-> Tuple([c \in 1..Len(cols) |-> cols[c][i]])])

\* the k-th batch: its elements put together again, component by component
BatchOf(ds, size, k) ==
    LET elems == SubSeq(ds, (k - 1) * size + 1, Min(k * size, Len(ds)))
    IN  Tuple([c \in 1..Len(ds[1]) |-> Tuple([i \in 1..Len(elems) |-> elems[i][c]])])

\* ds.batch(size): consecutive elements, the last batch may be smaller
batch(ds, size) ==
    Tuple([k \in 1..((Len(ds) + size - 1) \div size) |-> BatchOf(ds, size, k)])

\* cell 2: df = pd.read_csv(...); df = df.sample(frac=1)
DataCell2 ==
    /\ AtCell("multilabel", 2)
    /\ \E a \in Strides, r \in 0..(NRows - 1) :
          ns' = Bind(ns, "df", sample(read_csv, Shuffle(a, r)))
    /\ pc' = Next_cell("multilabel", 3)

Datasets(env) ==
    Bind(Bind(env,
        "ds_train", batch(from_tensor_slices(<<Head160(env.features),
                                               Head160(env.labels_sex),
                                               Head160(env.labels_color)>>), batch_size)),
        "ds_test",  batch(from_tensor_slices(<<Tail160(env.features),
                                               Tail160(env.labels_sex),
                                               Tail160(env.labels_color)>>), batch_size))

\* cell 3: the columns and the two datasets
DataCell3 ==
    /\ AtCell("multilabel", 3)
    /\ ns' = Datasets(Bind(Bind(Bind(ns,
                 "features", Column(ns.df, "id")),
                 "labels_sex", Column(ns.df, "sex")),
                 "labels_color", Column(ns.df, "sp")))
    /\ pc' = Next_cell("multilabel", 11)

Rewind(env, epoch) ==
    Bind(Bind(Bind(env, "epoch", epoch), "i_train", 0), "i_test", 0)

\* commons.train(EPOCHS, ...): the first epoch begins
Train_start ==
    /\ AtCell("multilabel", 11)
    /\ ~Bound("epoch")
    /\ ns' = Rewind(ns, 1)
    /\ UNCHANGED pc

\* for batch_elements in ds_train: train_step(*batch_elements)
Train_batch ==
    /\ AtCell("multilabel", 11)
    /\ Bound("epoch")
    /\ ns.i_train < Len(ns.ds_train)
    /\ ns' = Bind(Bind(ns, "batch_elements", ns.ds_train[ns.i_train + 1]),
                  "i_train", ns.i_train + 1)
    /\ UNCHANGED pc

\* for batch_elements in ds_test: test_step(*batch_elements)
Test_batch ==
    /\ AtCell("multilabel", 11)
    /\ Bound("epoch")
    /\ ns.i_train = Len(ns.ds_train)
    /\ ns.i_test < Len(ns.ds_test)
    /\ ns' = Bind(Bind(ns, "batch_elements", ns.ds_test[ns.i_test + 1]),
                  "i_test", ns.i_test + 1)
    /\ UNCHANGED pc

\* the next epoch iterates both datasets anew; the last epoch ends the cell
Epoch_end ==
    /\ AtCell("multilabel", 11)
    /\ Bound("epoch")
    /\ ns.i_train = Len(ns.ds_train)
    /\ ns.i_test = Len(ns.ds_test)
    /\ IF ns.epoch < MaxEpochs
       THEN ns' = Rewind(ns, ns.epoch + 1) /\ UNCHANGED pc
       ELSE pc' = Next_cell("multilabel", 12) /\ UNCHANGED ns

InitData == ns = EmptyNs /\ pc = Next_cell("multilabel", 2)

NextData ==
    \/ DataCell2
    \/ DataCell3
    \/ Train_start
    \/ Train_batch
    \/ Test_batch
    \/ Epoch_end

SpecData == InitData /\ [][NextData]_vars

(***************************************************************************)
(* multiclass-multilabel.ipynb: the accuracy of train_step.  Logits are     *)
(* integers, probabilities are in thousandths.                              *)
(***************************************************************************)
MaxSamples == 1

threshold == 500

\* the logits the logits model may give a sample for one class
Logits == {-1, 0, 1}

\* tf.math.sigmoid of the logits -3..3, rounded to thousandths
sigmoid(z) == <<47, 119, 269, 500, 731, 881, 953>>[z + 4]

\* tf.cast(b, tf.int32)
CastInt(b) == IF b THEN 1 ELSE 0

Thresholded_geq(y, thr) == y >= thr

\* y_pred > threshold
Thresholded(y, thr) == y > thr

\* tf.math.count_nonzero(row, axis=-1)
RECURSIVE count_nonzero(_)
count_nonzero(row) ==
    IF row = <<>> THEN 0
    ELSE (IF Head(row) # 0 THEN 1 ELSE 0) + count_nonzero(Tail(row))

HammingRow(t, q) ==
    Q(count_nonzero(Tuple([j \in 1..Len(t) |->
                              CastInt(t[j]) - CastInt(Thresholded(q[j], threshold))])),
      Len(t))

\* multilabel_hamming_loss(y_true, y_pred, threshold=0.5, from_logits): one
\* value for each sample
multilabel_hamming_loss(y_true, y_pred, from_logits) ==
    Tuple([b \in 1..Len(y_true) |->
        HammingRow(y_true[b],
                   IF from_logits
                   THEN Tuple([j \in 1..Len(y_pred[b]) |-> sigmoid(y_pred[b][j])])
                   ELSE y_pred[b])])

\* tf.stack([labels_male,labels_female,labels_blue,labels_orange],axis=-1)
OneHot(labels_sex, labels_color) ==
    Tuple([b \in 1..Len(labels_sex) |->
        <<labels_sex[b] = "M", labels_sex[b] = "F",
          labels_color[b] = "B", labels_color[b] = "O">>])

InitAccuracy ==
    \E n \in 1..MaxSamples :
        \E sex \in [1..n -> {"M", "F"}], color \in [1..n -> {"B", "O"}],
           logits \in [1..n -> [1..4 -> Logits]] :
            /\ ns = Bind(Bind(Bind(Bind(EmptyNs,
                        "features", Tuple([b \in 1..n |-> b])),
                        "labels_sex", Tuple(sex)),
                        "labels_color", Tuple(color)),
                        "logits_model", Tuple([b \in 1..n |-> Tuple(logits[b])]))
            /\ pc = Next_cell("train_step", 1)

\* predictions = logits_model(features); onehot = tf.stack([...],axis=-1)
TrainStep_predictions ==
    /\ AtCell("train_step", 1)
    /\ ns' = Bind(Bind(ns,
                 "predictions", Tuple([b \in 1..Len(ns.features) |->
                                          ns.logits_model[ns.features[b]]])),
                 "onehot", OneHot(ns.labels_sex, ns.labels_color))
    /\ pc' = Next_cell("train_step", 2)

\* 1-multilabel_hamming_loss(onehot,predictions,from_logits=True)
Accuracy(loss) == Tuple([b \in 1..Len(loss) |-> QSub(QOne, loss[b])])

BindAccuracy(env, loss) == Bind(Bind(env, "hamming", loss), "accuracy", Accuracy(loss))

TrainStep_accuracy ==
    /\ AtCell("train_step", 2)
    /\ ns' = LET loss == multilabel_hamming_loss(ns.onehot, ns.predictions, TRUE)
             IN  BindAccuracy(ns, loss)
    /\ pc' = Next_cell("train_step", 3)

NextAccuracy ==
    \/ TrainStep_predictions
    \/ TrainStep_accuracy

SpecAccuracy == InitAccuracy /\ [][NextAccuracy]_vars

(***************************************************************************)
(* multiclass-multilabel.ipynb, cell 6: the four connectives, each applied  *)
(* to formulas a and b over the individuals of one variable x.              *)
(***************************************************************************)
\* Not = ltn.Wrapper_Connective(ltn.fuzzy_ops.Not_Std())
Not(wff, o) == Connective_call("Not", <<wff>>, o)

\* And = ltn.Wrapper_Connective(ltn.fuzzy_ops.And_Prod())
And(a, b, o) == Connective_call("And", <<a, b>>, o)

\* Or = ltn.Wrapper_Connective(ltn.fuzzy_ops.Or_ProbSum())
Or(a, b, o) == Connective_call("Or", <<a, b>>, o)

Implies_converse(a, b, o) == Connective_call("Implies", <<b, a>>, o)

\* Implies = ltn.Wrapper_Connective(ltn.fuzzy_ops.Implies_Reichenbach())
Implies(a, b, o) == Connective_call("Implies", <<a, b>>, o)

InitConnectives ==
    \E n \in 1..MaxBatch :
        \E va \in [1..n -> 0..TruthDen], vb \in [1..n -> 0..TruthDen] :
            /\ ns = Bind(Bind(EmptyNs, "a", [TruthSequence(va) EXCEPT !.obj = 1]),
                         "b", [TruthSequence(vb) EXCEPT !.obj = 2])
            /\ pc = Next_cell("connectives", 1)

Apply_Not ==
    /\ AtCell("connectives", 1)
    /\ ns' = Bind(ns, "not_a", Not(ns.a, 3))
    /\ pc' = Next_cell("connectives", 2)

Apply_And ==
    /\ AtCell("connectives", 2)
    /\ ns' = Bind(ns, "a_and_b", And(ns.a, ns.b, 4))
    /\ pc' = Next_cell("connectives", 3)

Apply_Or ==
    /\ AtCell("connectives", 3)
    /\ ns' = Bind(ns, "a_or_b", Or(ns.a, ns.b, 5))
    /\ pc' = Next_cell("connectives", 4)

Apply_Implies ==
    /\ AtCell("connectives", 4)
    /\ ns' = Bind(ns, "a_implies_b", Implies(ns.a, ns.b, 6))
    /\ pc' = Next_cell("connectives", 5)

NextConnectives ==
    \/ Apply_Not
    \/ Apply_And
    \/ Apply_Or
    \/ Apply_Implies

SpecConnectives == InitConnectives /\ [][NextConnectives]_vars

(***************************************************************************)
(* Claims about the tutorial notebook.                                      *)
(***************************************************************************)
Ran(n) == pc.nb = "tutorial" /\ pc.cell > n

\* x and y are still the variables of cell 10 (cell 14 binds x anew)
XYofCell10 == Ran(10) /\ ~Ran(14)

NIndividuals(v) == v.shape[1]

Individual(v, i) == BatchRow(v, i)

\* C1: a predicate or function evaluated on the variables x and y (in that
\* order) returns a tensor whose first two axes have the sizes of x and of y,
\* and whose active_doms is <<"x", "y">>; evaluated on x alone, the first axis
\* has the size of x and active_doms is <<"x">>.
C1_AxesFollowVariables ==
    /\ (XYofCell10 /\ Bound("res1")) =>
          /\ SubSeq(ns.res1.shape, 1, 2) = <<NIndividuals(ns.x), NIndividuals(ns.y)>>
          /\ ns.res1.active_doms = <<"x", "y">>
    /\ (XYofCell10 /\ Bound("res2")) =>
          /\ SubSeq(ns.res2.shape, 1, 2) = <<NIndividuals(ns.x), NIndividuals(ns.y)>>
          /\ ns.res2.active_doms = <<"x", "y">>
    /\ Ran(14) =>
          /\ SubSeq(ns.res.shape, 1, 1) = <<NIndividuals(ns.x)>>
          /\ ns.res.active_doms = <<"x">>

C1_Witness ==
    /\ XYofCell10 /\ Bound("res1") /\ Bound("res2")
    /\ NIndividuals(ns.x) = 2 /\ NIndividuals(ns.y) = 1
    /\ ns.res1.shape = <<2, 1>>

\* C2: entry [i,j] of P3([x,y]) is P3 applied to the i-th individual of x and
\* the j-th of y, entry [i,j] of f1([x,y]) is their difference, and the i-th
\* output of P2(x) is P2 applied to the i-th individual of x.
C2_EntryPerIndividual ==
    /\ (XYofCell10 /\ Bound("res1")) =>
          \A i \in 1..NIndividuals(ns.x), j \in 1..NIndividuals(ns.y) :
             At(ns.res1, <<i, j>>) =
                [net |-> "ModelP3", row |-> Individual(ns.x, i) \o Individual(ns.y, j)]
    /\ (XYofCell10 /\ Bound("res2")) =>
          \A i \in 1..NIndividuals(ns.x), j \in 1..NIndividuals(ns.y), d \in 1..FeatDim :
             At(ns.res2, <<i, j, d>>) = Individual(ns.x, i)[d] - Individual(ns.y, j)[d]
    /\ Ran(14) =>
          \A i \in 1..NIndividuals(ns.x) :
             At(ns.res, <<i>>) = [net |-> "ModelP2", row |-> Individual(ns.x, i)]

C2_Witness ==
    /\ XYofCell10 /\ Bound("res1") /\ Bound("res2")
    /\ NIndividuals(ns.x) = 2 /\ NIndividuals(ns.y) = 2
    /\ Individual(ns.x, 1) # Individual(ns.x, 2)
    /\ Individual(ns.y, 1) # Individual(ns.y, 2)
    /\ Individual(ns.x, 2) # Individual(ns.y, 1)
    /\ At(ns.res1, <<2, 1>>) # At(ns.res1, <<1, 2>>)

\* C3: a constant argument adds no axis and no entry of active_doms: P3([c1,y])
\* has shape (|y|,) and active_doms <<"y">>; a predicate applied to constants
\* only returns a scalar with no active_doms, although the model was called
\* with inputs whose first axis is a batch axis (of size 1).
C3_ConstantsAddNoAxis ==
    /\ (XYofCell10 /\ Bound("res3")) =>
          /\ ns.res3.shape = <<NIndividuals(ns.y)>>
          /\ ns.res3.active_doms = <<"y">>
    /\ Bound("out6") =>
          /\ \A k \in 1..Len(ns.out6) : ns.out6[k].shape = <<>> /\ ns.out6[k].active_doms = <<>>
          /\ \A k \in 1..Len(ns.fed6) : ns.fed6[k].shape = <<1>> \o C1Value.shape
    /\ Bound("out7") =>
          /\ ns.out7.shape = <<>> /\ ns.out7.active_doms = <<>>
          /\ \A k \in 1..Len(ns.fed7) : ns.fed7[k].shape = <<1>> \o C1Value.shape

C3_Witness ==
    /\ XYofCell10 /\ Bound("res3") /\ Bound("out6") /\ Bound("out7")
    /\ NIndividuals(ns.y) = 2 /\ NIndividuals(ns.x) = 1
    /\ Len(ns.fed7) = 2

\* C4: the leading axes of f1([x,y]) are the variable axes, one per entry of
\* active_doms = <<"x", "y">>, and its trailing axis is the dimension of an
\* outcome (an individual of R^2): the shape is (|x|, |y|, 2), so active_doms
\* has fewer entries than the result has axes.
C4_FunctionTrailingAxes ==
    (XYofCell10 /\ Bound("res2")) =>
       /\ ns.res2.shape = <<NIndividuals(ns.x), NIndividuals(ns.y), FeatDim>>
       /\ ns.res2.active_doms = <<"x", "y">>
       /\ Len(ns.res2.active_doms) < Len(ns.res2.shape)

C4_Witness ==
    /\ XYofCell10 /\ Bound("res2")
    /\ ns.res2.shape = <<1, 2, 2>>

\* the tensor objects the namespace env has names for
TensorNames == {"c1", "c2", "c3", "mu", "x", "y", "res1", "res2", "res3", "res"}

NamedObjs(env) == {env[n].obj : n \in (DOMAIN env) \cap TensorNames}

\* C7: a variable built from a plain value (cell 10, a numpy array) is a tensor
\* object that did not exist before, while the variable built from the tensor
\* tf.stack([c1,c2]) (cell 14) is that very object, labelled; it stays
\* connected to the trainable constants, so the gradient of P2(x) with respect
\* to c1 is not None.
C7_VariableObject ==
    /\ [][AtCell("tutorial", 10) =>
             /\ ns'.x.obj \notin NamedObjs(ns)
             /\ ns'.y.obj \notin NamedObjs(ns)
             /\ ns'.x.obj # ns'.y.obj
             /\ ns'.x.deps = {}]_vars
    /\ [](Ran(14) =>
             /\ ns.x = [StackC1C2(ns) EXCEPT !.active_doms = <<"x">>]
             /\ ns.c1.obj \in ns.x.deps
             /\ ns.out14 # NONE
             /\ ns.out14.grad_wrt = ns.c1.obj)

C7_Witness ==
    /\ Ran(14)
    /\ ns.x.obj = StackC1C2(ns).obj
    /\ ns.out14 # NONE

(***************************************************************************)
(* Claims about the multilabel notebook.                                    *)
(***************************************************************************)
RanStep(n) == pc.nb = "test_step" /\ pc.cell > n

TruthGrid == {Q(a, TruthDen) : a \in 0..TruthDen}

ConnectivesInUnit ==
    /\ \A a \in TruthGrid : InUnit(ConnectiveOp("Not", <<a>>))
    /\ \A a, b \in TruthGrid :
          \A op \in {"And", "Or", "Implies"} : InUnit(ConnectiveOp(op, <<a, b>>))

\* C5: for predicate outputs in [0,1], every connective result, every Forall
\* aggregation and the sat_level that axioms returns is a real number of [0,1]
C5_GroundingsInUnit ==
    /\ ConnectivesInUnit
    /\ RanStep(1) => /\ \A k \in 1..Len(ns.axioms.flat) : InUnit(ns.axioms.flat[k])
                     /\ InUnit(ns.sat_kb)
    /\ RanStep(2) => InUnit(ns.sat_phi1.flat[1])
    /\ RanStep(3) => InUnit(ns.sat_phi2.flat[1])
    /\ RanStep(4) => InUnit(ns.sat_phi3.flat[1])

\* the samples of the batch whose label is v, in the order of the batch
SamplesOf(labels, v) ==
    SelectSeq(Tuple([b \in 1..labels.shape[1] |-> b]), LAMBDA b : labels.flat[b] = v)

AllSamples == Tuple([b \in 1..ns.labels_sex.shape[1] |-> b])

\* the p-mean-error (p = 2) of "sample is of the class" over the samples ids
PositiveAxiom(ids, class) ==
    Aggreg_pMeanError(
        Tuple([k \in 1..Len(ids) |-> Q(ns.weights[ids[k]][class + 1], TruthDen)]), 2)

\* the p-mean-error (p = 2) of "sample is not of both classes" over the batch
ExclusionAxiom(a, b) ==
    Aggreg_pMeanError(
        Tuple([i \in 1..Len(AllSamples) |->
                 Not_Std(And_Prod(Q(ns.weights[i][a + 1], TruthDen),
                                  Q(ns.weights[i][b + 1], TruthDen)))]), 2)

Partition(u, v) ==
    /\ Range(u) \cup Range(v) = Range(AllSamples)
    /\ Range(u) \cap Range(v) = {}
    /\ Len(u) + Len(v) = Len(AllSamples)

\* C6: axioms evaluates the six axioms: each positive axiom quantifies over
\* exactly the samples of the batch with that label and asserts the predicate
\* of the matching class, the two exclusion axioms quantify over every
\* sample; blue and orange partition the batch, as do male and female
C6_SixAxioms ==
    RanStep(1) =>
        /\ ns.x_blue.flat   = SamplesOf(ns.labels_color, "B")
        /\ ns.x_orange.flat = SamplesOf(ns.labels_color, "O")
        /\ ns.x_male.flat   = SamplesOf(ns.labels_sex, "M")
        /\ ns.x_female.flat = SamplesOf(ns.labels_sex, "F")
        /\ ns.x.flat = AllSamples
        /\ ns.axioms.shape = <<6>>
        /\ ns.axioms.flat =
              <<PositiveAxiom(ns.x_blue.flat, 2), PositiveAxiom(ns.x_orange.flat, 3),
                PositiveAxiom(ns.x_male.flat, 0), PositiveAxiom(ns.x_female.flat, 1),
                ExclusionAxiom(2, 3), ExclusionAxiom(0, 1)>>
        /\ Partition(ns.x_blue.flat, ns.x_orange.flat)
        /\ Partition(ns.x_male.flat, ns.x_female.flat)

\* axioms has run on a batch with a male blue and a female orange sample
\* whose predicate outputs differ
C6_Witness ==
    /\ RanStep(1)
    /\ ns.x_blue.flat = <<1>> /\ ns.x_orange.flat = <<2>>
    /\ ns.x_male.flat = <<1>> /\ ns.x_female.flat = <<2>>
    /\ ns.weights[1] # ns.weights[2]
    /\ \A k \in 1..6 : ~IsNaN(ns.axioms.flat[k])

\* C8: on the same sequence of truth values Forall with p=5 returns at most
\* what Forall with p=2 returns
C8_HigherPStricter ==
    (pc.nb = "forall" /\ Bound("sat_p2") /\ Bound("sat_p5")) =>
        PmeLeq(ns.sat_p5.flat[1], ns.sat_p2.flat[1])

\* both have run on a sequence where p=5 is strictly below p=2
C8_Witness ==
    /\ pc.nb = "forall" /\ Bound("sat_p2") /\ Bound("sat_p5")
    /\ Len(ns.wff.flat) > 1
    /\ ~PmeLeq(ns.sat_p2.flat[1], ns.sat_p5.flat[1])

\* the datasets are built
DataReady == pc.nb = "multilabel" /\ Bound("ds_train") /\ Bound("ds_test")

BatchSizes(ds) == Tuple([k \in 1..Len(ds) |-> Len(ds[k][1])])

\* the ids of the rows of a dataset, batch after batch
RowsOfDataset(ds) == Flatten(Tuple([k \in 1..Len(ds) |-> ds[k][1]]))

\* features and both labels of a batch are those of the same row of crabs.dat
Aligned(b) ==
    /\ Len(b[2]) = Len(b[1]) /\ Len(b[3]) = Len(b[1])
    /\ \A k \in 1..Len(b[1]) :
          b[2][k] = Crabs(b[1][k]).sex /\ b[3][k] = Crabs(b[1][k]).sp

\* the batch the loop has delivered last (a new epoch begins after the
\* test batch of the epoch before)
LastDelivered ==
    IF ns.i_test > 0 \/ ns.i_train = 0
    THEN ns.ds_test[Len(ns.ds_test)]
    ELSE ns.ds_train[ns.i_train]

\* C9: of the 200 shuffled rows 160 are in ds_train and 40 in ds_test; the
\* two are disjoint and cover every row once; ds_train is delivered as
\* batches of 64, 64 and 32, ds_test as one batch of 40; features and both
\* labels of a sample stay at the same position of the same batch
C9_SplitAndBatches ==
    DataReady =>
        /\ Len(ns.df) = 200
        /\ BatchSizes(ns.ds_train) = <<64, 64, 32>>
        /\ BatchSizes(ns.ds_test) = <<40>>
        /\ Range(RowsOfDataset(ns.ds_train)) \cap Range(RowsOfDataset(ns.ds_test)) = {}
        /\ Range(RowsOfDataset(ns.ds_train)) \cup Range(RowsOfDataset(ns.ds_test)) = 0..199
        /\ RowsOfDataset(ns.ds_train) \o RowsOfDataset(ns.ds_test) = Column(ns.df, "id")
        /\ \A k \in 1..Len(ns.ds_train) : Aligned(ns.ds_train[k])
        /\ \A k \in 1..Len(ns.ds_test) : Aligned(ns.ds_test[k])
        /\ Bound("batch_elements") =>
              /\ Aligned(ns.batch_elements)
              /\ ns.batch_elements = LastDelivered

\* a shuffled frame whose last training batch of 32 rows is delivered
C9_Witness ==
    /\ DataReady
    /\ ns.df[1].id # 0 /\ ns.df[2].id # ns.df[1].id + 1
    /\ Bound("batch_elements") /\ ns.i_train = 3 /\ ns.i_test = 0
    /\ Len(ns.batch_elements[1]) = 32

\* the label positions of sample b where the prediction (positive exactly for
\* a logit above 0) differs from the true label
Mismatches(b) ==
    {j \in 1..4 : (ns.predictions[b][j] > 0) # ns.onehot[b][j]}

\* C10: for each sample multilabel_hamming_loss is the number of label
\* positions where the thresholded prediction differs from the true label,
\* divided by 4: one of 0, 1/4, 2/4, 3/4, 1, and 0 exactly when every
\* position matches; a prediction is positive only strictly above the
\* threshold, so a logit of 0 is negative
C10_HammingLoss ==
    (pc.nb = "train_step" /\ Bound("hamming")) =>
        \A b \in 1..Len(ns.hamming) :
            /\ ns.hamming[b] = Q(Cardinality(Mismatches(b)), 4)
            /\ ns.hamming[b] \in {Q(k, 4) : k \in 0..4}
            /\ (ns.hamming[b] = Q(0, 1)) <=> (Mismatches(b) = {})
            /\ \A j \in 1..4 :
                  (ns.predictions[b][j] = 0 /\ ns.onehot[b][j]) => j \in Mismatches(b)

\* the loss of a male blue sample whose logits are 0 for male and positive
\* for blue: one mismatch of four
C10_Witness ==
    /\ pc.nb = "train_step" /\ Bound("hamming")
    /\ ns.onehot[1] = <<TRUE, FALSE, TRUE, FALSE>>
    /\ ns.predictions[1] = <<0, -1, 1, -1>>
    /\ ns.hamming[1] = Q(1, 4)

\* a truth value is crisp: it is 0 or it is 1
IsCrisp(v) == v = Q(0, 1) \/ v = Q(1, 1)

\* the truth value of a Boolean
Crisp(t) == IF t THEN Q(1, 1) ELSE Q(0, 1)

\* the Boolean of a crisp truth value
Holds(v) == v = Q(1, 1)

AppliedTo(n) == pc.nb = "connectives" /\ pc.cell > n

\* C11: on crisp truth values Not_Std, And_Prod, Or_ProbSum and
\* Implies_Reichenbach give the classical negation, conjunction, disjunction
\* and material implication
C11_CrispConnectives ==
    /\ AppliedTo(1) =>
          \A i \in 1..Len(ns.a.flat) :
              IsCrisp(ns.a.flat[i]) => ns.not_a.flat[i] = Crisp(~Holds(ns.a.flat[i]))
    /\ AppliedTo(2) =>
          \A i \in 1..Len(ns.a.flat) :
              (IsCrisp(ns.a.flat[i]) /\ IsCrisp(ns.b.flat[i])) =>
                  ns.a_and_b.flat[i] = Crisp(Holds(ns.a.flat[i]) /\ Holds(ns.b.flat[i]))
    /\ AppliedTo(3) =>
          \A i \in 1..Len(ns.a.flat) :
              (IsCrisp(ns.a.flat[i]) /\ IsCrisp(ns.b.flat[i])) =>
                  ns.a_or_b.flat[i] = Crisp(Holds(ns.a.flat[i]) \/ Holds(ns.b.flat[i]))
    /\ AppliedTo(4) =>
          \A i \in 1..Len(ns.a.flat) :
              (IsCrisp(ns.a.flat[i]) /\ IsCrisp(ns.b.flat[i])) =>
                  ns.a_implies_b.flat[i] = Crisp(Holds(ns.a.flat[i]) => Holds(ns.b.flat[i]))

\* the four connectives have been applied to crisp formulas, a true and b
\* false for the first individual, a false and b true for the second
C11_Witness ==
    /\ AppliedTo(4)
    /\ ns.a.flat = <<Q(1, 1), Q(0, 1)>>
    /\ ns.b.flat = <<Q(0, 1), Q(1, 1)>>
    /\ ns.a_implies_b.flat = <<Q(0, 1), Q(1, 1)>>
    /\ ns.a_or_b.flat = <<Q(1, 1), Q(1, 1)>>

====
